---- MODULE Spec2Model ----
(***************************************************************************)
(* Model of the vault file manager (src/interactive_file_manager.py):      *)
(* the SQLite-backed metadata store (VaultDatabase), the content analyzer  *)
(* (analyze_file_content and its per-type helpers) and the interactive     *)
(* process-new-file workflow (InteractiveFileManager.process_new_file).    *)
(*                                                                         *)
(* Text is modelled as a sequence of one-character strings, so that        *)
(* str.strip, str.lower, the `in` substring test, Path.suffix and          *)
(* Path.name are computed character by character.  A character outside    *)
(* ASCII is written as its code point name (for instance "U+2696").        *)
(***************************************************************************)
EXTENDS Integers, Sequences, FiniteSets, TLC

\* ------------------------------------------------------------------ bounds

\* Largest number of update_file_metadata calls in one behaviour.
MaxUpdates == 1

\* ------------------------------------------------------------ text helpers

UpperChars == <<"A","B","C","D","E","F","G","H","I","J","K","L","M",
                "N","O","P","Q","R","S","T","U","V","W","X","Y","Z">>
LowerChars == <<"a","b","c","d","e","f","g","h","i","j","k","l","m",
                "n","o","p","q","r","s","t","u","v","w","x","y","z">>
DigitChars == <<"0","1","2","3","4","5","6","7","8","9">>

\* The characters str.strip() removes.
Whitespace == {" ", "\t", "\n", "\r"}

\* str.lower() on one character.
LowerChar(c) ==
    IF \E i \in 1..Len(UpperChars) : UpperChars[i] = c
    THEN LowerChars[CHOOSE i \in 1..Len(UpperChars) : UpperChars[i] = c]
    ELSE c

\* str.lower()
Lower(s) == [i \in 1..Len(s) |-> LowerChar(s[i])]

\* str.strip(): drop the leading and the trailing whitespace.
Strip(s) ==
    LET keep == {i \in 1..Len(s) : s[i] \notin Whitespace}
    IN  IF keep = {} THEN <<>>
        ELSE LET lo == CHOOSE i \in keep : \A j \in keep : i <= j
                 hi == CHOOSE i \in keep : \A j \in keep : j <= i
             IN  SubSeq(s, lo, hi)

\* Python's `w in s` on strings: w occurs in s as a contiguous substring.
Contains(s, w) ==
    \E i \in 1..(Len(s) - Len(w) + 1) : SubSeq(s, i, i + Len(w) - 1) = w

\* any(w in s for w in words)
AnyIn(words, s) == \E w \in words : Contains(s, w)

\* Index of the last occurrence of character c in s, 0 when there is none.
LastIndex(s, c) ==
    LET at == {i \in 1..Len(s) : s[i] = c}
    IN  IF at = {} THEN 0 ELSE CHOOSE i \in at : \A j \in at : j <= i

\* Path.name: the final component of a path.
PathName(p) == SubSeq(p, LastIndex(p, "/") + 1, Len(p))

\* Path.suffix: from the last dot of the name, unless the dot leads or ends it.
PathSuffix(p) ==
    LET n == PathName(p)
        i == LastIndex(n, ".")
    IN  IF 1 < i /\ i < Len(n) THEN SubSeq(n, i, Len(n)) ELSE <<>>

\* The working directory of the process.
Cwd == <<"/","v">>

\* Path(s).resolve(): a relative path is taken from the working directory.
Resolve(p) ==
    IF Len(p) > 0 /\ p[1] = "/" THEN p ELSE Cwd \o <<"/">> \o p

\* ', '.join(tags)
RECURSIVE Join(_)
Join(tags) ==
    IF Len(tags) = 0 THEN <<>>
    ELSE IF Len(tags) = 1 THEN tags[1]
    ELSE tags[1] \o <<",", " ">> \o Join(Tail(tags))

\* str(n) for a natural number n.
RECURSIVE IntText(_)
IntText(n) ==
    IF n < 10 THEN <<DigitChars[n + 1]>>
    ELSE IntText(n \div 10) \o <<DigitChars[(n % 10) + 1]>>

IsDigit(c) == \E i \in 1..10 : DigitChars[i] = c

DigitValue(c) == (CHOOSE i \in 1..10 : DigitChars[i] = c) - 1

\* The integer a text of digits denotes.
RECURSIVE TextInt(_)
TextInt(s) ==
    IF Len(s) = 0 THEN 0
    ELSE 10 * TextInt(SubSeq(s, 1, Len(s) - 1)) + DigitValue(s[Len(s)])

\* ----------------------------------------------------------------- texts

T_empty == <<>>
T_y == <<"y">>
T_yes == <<"y","e","s">>
T_n == <<"n">>
T_archived == <<"a","r","c","h","i","v","e","d">>
T_new == <<"n","e","w">>
T_in_progress == <<"i","n","_","p","r","o","g","r","e","s","s">>
T_review == <<"r","e","v","i","e","w">>
T_completed == <<"c","o","m","p","l","e","t","e","d">>
T_public == <<"p","u","b","l","i","c">>
T_internal == <<"i","n","t","e","r","n","a","l">>
T_confidential == <<"c","o","n","f","i","d","e","n","t","i","a","l">>
T_unknown == <<"u","n","k","n","o","w","n">>
T_Uncategorized == <<"U","n","c","a","t","e","g","o","r","i","z","e","d">>

T_memo == <<"m","e","m","o">>
T_misc == <<"m","i","s","c">>
T_note == <<"n","o","t","e">>
T_t1 == <<"2","0","2","4","-","0","1","-","0","1","T","0","0",":","0","0",":","0","0">>
T_t2 == <<"2","0","2","4","-","0","1","-","0","1","T","0","0",":","0","0",":","0","1">>

\* ------------------------------------------------------- Python values

\* None
None == [py |-> "None"]

\* A str value.
StrVal(s) == [py |-> "str", s |-> s]

\* An int value.
IntVal(n) == [py |-> "int", v |-> n]

\* bool(x), as `if x:` and `x or y` take it.
Truthy(x) ==
    CASE x.py = "None" -> FALSE
      [] x.py = "str" -> Len(x.s) > 0
      [] x.py = "int" -> x.v # 0

\* ------------------------------------------------------ the files table

\* The column list of the INSERT statement, in the order of its placeholders.
InsertColumns == <<"description", "tags", "status", "content_type", "sensitivity",
                   "custom_fields", "date_created", "filename", "path">>

\* The columns of CREATE TABLE files.
TableColumns == {"id"} \cup {InsertColumns[i] : i \in 1..Len(InsertColumns)}

\* The columns declared UNIQUE (id as the primary key, path by its constraint).
UniqueColumns == {"id", "path"}

\* SQLite's other names of the INTEGER PRIMARY KEY column.
RowidAliases == {"rowid", "oid", "_rowid_"}

Max(a, b) == IF a >= b THEN a ELSE b

\* The largest id among rows, 0 for an empty table.
MaxId(rows) ==
    IF rows = {} THEN 0
    ELSE CHOOSE m \in {r["id"] : r \in rows} : \A r \in rows : r["id"] <= m

\* AUTOINCREMENT: one more than the largest rowid ever handed out or present.
NextRowid(rows, seq) == Max(seq, MaxId(rows)) + 1

\* The row INSERT builds: placeholder i is bound to file_data[i].
InsertedRow(id, file_data) ==
    [c \in TableColumns |->
        IF c = "id" THEN id
        ELSE file_data[CHOOSE i \in 1..Len(InsertColumns) : InsertColumns[i] = c]]

\* A table whose path column is not declared UNIQUE.
PathTakenNever(rows, path) == FALSE

\* The UNIQUE constraint on path: some row already holds this path.
PathTaken(rows, path) == \E r \in rows : r["path"] = path

\* Storage order: the rows by ascending rowid.
RECURSIVE ById(_)
ById(rows) ==
    IF rows = {} THEN <<>>
    ELSE LET first == CHOOSE r \in rows : \A q \in rows : r["id"] <= q["id"]
         IN  <<first>> \o ById(rows \ {first})

\* VaultDatabase.add_file_metadata(file_data) on table `rows` with
\* sqlite_sequence `seq`; engine = "error" is a storage failure that is not a
\* constraint violation (locked or unreadable database, missing table).
\* Gives the table and sequence afterwards, the value returned and the
\* except clause taken.
AddFileMetadata(rows, seq, file_data, engine) ==
    IF engine = "error"
    THEN [rows |-> rows, seq |-> seq, result |-> None, exc |-> "Exception"]
    ELSE IF PathTaken(rows, file_data[9])
    THEN [rows |-> rows, seq |-> seq, result |-> None, exc |-> "IntegrityError"]
    ELSE LET id == NextRowid(rows, seq)
         IN  [rows |-> rows \cup {InsertedRow(id, file_data)}, seq |-> id,
              result |-> IntVal(id), exc |-> "none"]

\* The WHERE clause get_file_metadata chooses from its arguments.
GetFilter(rows, filename, path) ==
    IF Truthy(path) THEN {r \in rows : r["path"] = path.s}
    ELSE IF Truthy(filename) THEN {r \in rows : r["filename"] = filename.s}
    ELSE rows

\* VaultDatabase.get_file_metadata(filename, path): the rows fetched.
GetFileMetadata(rows, filename, path, engine) ==
    IF engine = "error" THEN <<>> ELSE ById(GetFilter(rows, filename, path))

T_research_document == <<"r","e","s","e","a","r","c","h","_","d","o","c","u","m","e","n","t">>
T_legal_document == <<"l","e","g","a","l","_","d","o","c","u","m","e","n","t">>
T_business_document == <<"b","u","s","i","n","e","s","s","_","d","o","c","u","m","e","n","t">>
T_document_pdf == <<"d","o","c","u","m","e","n","t","_","p","d","f">>
T_document_docx == <<"d","o","c","u","m","e","n","t","_","d","o","c","x">>
T_text_file == <<"t","e","x","t","_","f","i","l","e">>
T_title == <<"T","i","t","l","e">>
Tag_Research == <<"U+1F52C"," ","R","e","s","e","a","r","c","h">>
Tag_Analysis == <<"U+1F4CA"," ","A","n","a","l","y","s","i","s">>
Tag_Legal == <<"U+2696","U+FE0F"," ","L","e","g","a","l">>
Tag_Official == <<"U+1F4CB"," ","O","f","f","i","c","i","a","l">>
Tag_Business == <<"U+1F4BC"," ","B","u","s","i","n","e","s","s">>
Tag_Strategy == <<"U+1F3AF"," ","S","t","r","a","t","e","g","y">>
Tag_PDF == <<"U+1F4C4"," ","P","D","F">>
Tag_Document == <<"U+1F4C4"," ","D","o","c","u","m","e","n","t">>
Tag_Code == <<"U+1F4BB"," ","C","o","d","e">>
Tag_Technical == <<"U+1F527"," ","T","e","c","h","n","i","c","a","l">>
Tag_Creative == <<"U+1F3A8"," ","C","r","e","a","t","i","v","e">>
Tag_Ideas == <<"U+1F4A1"," ","I","d","e","a","s">>
Tag_Notes == <<"U+1F4DD"," ","N","o","t","e","s">>
Tag_Personal == <<"U+1F914"," ","P","e","r","s","o","n","a","l">>
K_research == <<"r","e","s","e","a","r","c","h">>
K_study == <<"s","t","u","d","y">>
K_analysis == <<"a","n","a","l","y","s","i","s">>
K_legal == <<"l","e","g","a","l">>
K_contract == <<"c","o","n","t","r","a","c","t">>
K_agreement == <<"a","g","r","e","e","m","e","n","t">>
K_business == <<"b","u","s","i","n","e","s","s">>
K_plan == <<"p","l","a","n">>
K_proposal == <<"p","r","o","p","o","s","a","l">>
X_pdf == <<".","p","d","f">>
X_docx == <<".","d","o","c","x">>
X_doc == <<".","d","o","c">>
X_txt == <<".","t","x","t">>
X_md == <<".","m","d">>
X_py == <<".","p","y">>
X_js == <<".","j","s">>
X_json == <<".","j","s","o","n">>
X_sh == <<".","s","h">>
X_sql == <<".","s","q","l">>

\* ------------------------------------------------ update_file_metadata

\* What SQLite makes of "UPDATE files SET {field}=? WHERE id=?" for the text
\* the f-string splices in as `field`: the columns assigned and, for each, its
\* source ("?" is the bound parameter `value`).  The empty set is a statement
\* SQLite refuses to prepare (no such column).
SetClause(field) ==
    CASE field \in TableColumns -> {[col |-> field, src |-> "?"]}
      [] field \in RowidAliases -> {[col |-> "id", src |-> "?"]}
      [] OTHER -> {}

\* A text that SQLite reads as an integer.
LooksInteger(s) == Len(s) > 0 /\ \A i \in 1..Len(s) : IsDigit(s[i])

\* Column affinity: whether the column can take the bound value.
Storable(col, value) ==
    IF col = "id"
    THEN value.py = "int" \/ (value.py = "str" /\ LooksInteger(value.s))
    ELSE value.py \in {"int", "str"}

\* Column affinity: the value as the column stores it (INTEGER PRIMARY KEY for
\* id, TEXT for the rest).
Stored(col, value) ==
    IF col = "id"
    THEN IF value.py = "int" THEN value.v ELSE TextInt(value.s)
    ELSE IF value.py = "str" THEN value.s ELSE IntText(value.v)

\* Row r after the assignments of the SET clause.
UpdatedRow(r, assigns, value) ==
    [c \in TableColumns |->
        IF \E a \in assigns : a.col = c
        THEN LET a == CHOOSE a \in assigns : a.col = c
             IN  IF a.src = "?" THEN Stored(c, value) ELSE r[a.src]
        ELSE r[c]]

\* The constraints of the table on row `new` beside the other rows.
ViolatesUnique(others, new) ==
    \E q \in others : \E c \in UniqueColumns : q[c] = new[c]

\* An UPDATE statement that lacks its WHERE clause.
UpdateEveryRow(rows, file_id, field, value, engine) ==
    LET assigns == SetClause(field)
    IN  IF \/ engine = "error"
           \/ assigns = {}
           \/ \E a \in assigns : a.src = "?" /\ ~Storable(a.col, value)
        THEN [rows |-> rows, result |-> FALSE, exc |-> "Exception"]
        ELSE [rows |-> {UpdatedRow(r, assigns, value) : r \in rows},
              result |-> TRUE, exc |-> "none"]

\* VaultDatabase.update_file_metadata(file_id, field, value): the table
\* afterwards, the boolean returned and the except clause taken.
UpdateFileMetadata(rows, file_id, field, value, engine) ==
    LET assigns == SetClause(field)
        hit == {r \in rows : r["id"] = file_id}
        failed == [rows |-> rows, result |-> FALSE, exc |-> "Exception"]
    IN  IF engine = "error" \/ assigns = {} THEN failed
        ELSE IF hit = {} THEN [rows |-> rows, result |-> TRUE, exc |-> "none"]
        ELSE IF \E a \in assigns : a.src = "?" /\ ~Storable(a.col, value) THEN failed
        ELSE LET r == CHOOSE r \in hit : TRUE
                 new == UpdatedRow(r, assigns, value)
             IN  IF ViolatesUnique(rows \ {r}, new) THEN failed
                 ELSE [rows |-> (rows \ {r}) \cup {new}, result |-> TRUE,
                       exc |-> "none"]

\* ------------------------------------------------------ content analysis

\* The extensions analyze_text_file is used for.
TextExtensions == {X_txt, X_md, X_py, X_js, X_json, X_sh, X_sql}

\* What type-specific extraction meets: `cap` is "ok" (the reader works),
\* "missing" (the import fails) or "fails" (the reader raises), `title` the
\* title the document gives ("" for none) and `text` whether it yields text.
Extractions ==
    {[cap |-> "ok", title |-> T_title, text |-> TRUE],
     [cap |-> "ok", title |-> T_empty, text |-> FALSE],
     [cap |-> "missing", title |-> T_empty, text |-> FALSE],
     [cap |-> "fails", title |-> T_empty, text |-> FALSE],
     [cap |-> "fails", title |-> T_title, text |-> FALSE]}

\* analyze_pdf: the keys it returns (the preview by its kind).
AnalyzePdf(x) ==
    [content_preview |->
        CASE x.cap = "missing" -> "NOTE: Install PyPDF2"
          [] x.cap = "fails" -> "PDF analysis failed"
          [] x.cap = "ok" /\ x.text -> "text[:250]..."
          [] OTHER -> "Could not read PDF.",
     detected_title |-> IF x.cap = "missing" THEN T_empty ELSE x.title,
     smart_category |-> T_document_pdf,
     suggested_tags |-> <<Tag_PDF, Tag_Document>>]

\* analyze_docx: the keys it returns.
AnalyzeDocx(x) ==
    [content_preview |->
        CASE x.cap = "missing" -> "NOTE: Install python-docx"
          [] x.cap = "fails" -> "DOCX analysis failed"
          [] x.cap = "ok" /\ x.text -> "text[:300]..."
          [] OTHER -> "Could not read DOCX.",
     detected_title |->
        IF x.cap = "missing" \/ Len(x.title) >= 100 THEN T_empty ELSE x.title,
     smart_category |-> T_document_docx,
     suggested_tags |-> <<Tag_Document, Tag_Business>>]

\* analyze_text_file: the keys it returns; it sets no suggested_tags.  It
\* imports nothing, so only a failing open or read ("fails") degrades it.
AnalyzeTextFile(x) ==
    [content_preview |->
        IF x.cap = "fails" THEN "Could not read file" ELSE "content[:250]...",
     detected_title |-> IF x.cap = "fails" THEN T_empty ELSE x.title,
     smart_category |-> T_text_file]

\* dict.update: the keys of `result` replace those of `analysis`.
DictUpdate(analysis, result) ==
    [k \in DOMAIN analysis |->
        IF k \in DOMAIN result THEN result[k] ELSE analysis[k]]

\* The keyword groups of the filename detection, in the order they are tried.
KeywordGroups ==
    <<[words |-> {K_research, K_study, K_analysis},
       category |-> T_research_document, tags |-> <<Tag_Research, Tag_Analysis>>],
      [words |-> {K_legal, K_contract, K_agreement},
       category |-> T_legal_document, tags |-> <<Tag_Legal, Tag_Official>>],
      [words |-> {K_business, K_plan, K_proposal},
       category |-> T_business_document, tags |-> <<Tag_Business, Tag_Strategy>>]>>

\* A detection that only fills in what type-specific extraction left unset.
KeywordDetectionIfUnset(analysis, filename_lower) ==
    LET matching == {i \in 1..Len(KeywordGroups) :
                        AnyIn(KeywordGroups[i].words, filename_lower)}
    IN  IF matching = {} \/ analysis.smart_category # T_unknown THEN analysis
        ELSE LET g == KeywordGroups[CHOOSE i \in matching : \A j \in matching : i <= j]
             IN  [analysis EXCEPT !.smart_category = g.category,
                                  !.suggested_tags = g.tags]

\* The if/elif chain over the lowercased filename: the first group with a
\* keyword in it sets category and tags.
KeywordDetection(analysis, filename_lower) ==
    LET matching == {i \in 1..Len(KeywordGroups) :
                        AnyIn(KeywordGroups[i].words, filename_lower)}
    IN  IF matching = {} THEN analysis
        ELSE LET g == KeywordGroups[CHOOSE i \in matching : \A j \in matching : i <= j]
             IN  [analysis EXCEPT !.smart_category = g.category,
                                  !.suggested_tags = g.tags]

\* The part of analyze_file_content in its try block: dispatch on extension.
TypeSpecific(analysis, x) ==
    CASE analysis.extension = X_pdf -> DictUpdate(analysis, AnalyzePdf(x))
      [] analysis.extension \in {X_docx, X_doc} -> DictUpdate(analysis, AnalyzeDocx(x))
      [] analysis.extension \in TextExtensions -> DictUpdate(analysis, AnalyzeTextFile(x))
      [] OTHER -> analysis

\* InteractiveFileManager.analyze_file_content(file_path) when type-specific
\* extraction meets x (size and modification time are left out).
AnalyzeFileContent(file_path, x) ==
    LET analysis == [extension |-> Lower(PathSuffix(file_path)),
                     content_preview |-> "N/A",
                     detected_title |-> T_empty,
                     smart_category |-> T_unknown,
                     suggested_tags |-> <<>>]
    IN  KeywordDetection(TypeSpecific(analysis, x), Lower(PathName(file_path)))


\* ------------------------------------------------------------ inputs

P_notes == <<"/","v","/","n","o","t","e","s",".","t","x","t">>
P_legal == <<"/","v","/","l","e","g","a","l","_","c","o","n","t","r","a","c","t","_","v","2",".","p","d","f">>
In_notes == <<"n","o","t","e","s",".","t","x","t">>
In_gone == <<"/","v","/","g","o","n","e",".","t","x","t">>
In_gone_rel == <<"g","o","n","e",".","p","d","f">>
N_notes == <<"n","o","t","e","s",".","t","x","t">>
A_YES_padded == <<" ","Y","E","S"," ">>
A_yess == <<"y","e","s","s">>
A_blank == <<" "," ">>
In_memo_padded == <<" ","m","e","m","o"," ">>
T_a_b_padded == <<" ","a",","," ","b"," ">>
D_1 == <<"1">>
D_2 == <<"2">>
D_3 == <<"3">>
D_4 == <<"4">>
D_5 == <<"5">>
D_6 == <<"6">>
D_9 == <<"9">>

\* The files that exist on disk (absolute paths).
ExistingFiles == {P_notes, P_legal}

\* The paths typed at "Enter full file path".
PathInputs == {In_notes, P_legal, In_gone, In_gone_rel}

\* The tuples handed to add_file_metadata directly, in the order
\* (description, tags, status, content_type, sensitivity, custom_fields,
\* date_created, filename, path).
AddInputs ==
    {<<T_memo, T_Uncategorized, T_new, T_misc, T_internal, T_empty, T_t1, N_notes, P_notes>>,
     <<T_memo, T_Uncategorized, T_new, T_misc, T_internal, T_empty, T_t1, T_empty, T_empty>>}

\* The outcomes of the storage engine for one statement.
Engines == {"ok", "error"}

\* The arguments of get_file_metadata, as (filename, path), each with the
\* outcome of the storage engine.
GetArgs ==
    {<<None, None, "ok">>,
     <<StrVal(N_notes), None, "ok">>,
     <<None, StrVal(T_empty), "ok">>,
     <<None, StrVal(P_notes), "ok">>,
     <<StrVal(N_notes), StrVal(P_notes), "ok">>,
     <<None, None, "error">>}

\* The arguments of update_file_metadata: the identifiers, and the pairs of
\* field and value.
IdArgs == {1, 2}
FieldValueArgs ==
    {<<"status", StrVal(T_archived)>>,
     <<"date_created", StrVal(T_archived)>>,
     <<"id", IntVal(7)>>,
     <<"rowid", IntVal(7)>>,
     <<"bogus", StrVal(T_archived)>>}

\* The calls of update_file_metadata, as (file_id, field, value), each with
\* the outcome of the storage engine.
UpdateArgs ==
    {<<i, fv[1], fv[2], "ok">> : i \in IdArgs, fv \in FieldValueArgs}
        \cup {<<1, "status", StrVal(T_archived), "error">>}

\* The answers typed at the metadata prompts of one run, as typed.
PromptAnswers ==
    {[description |-> T_empty, category |-> T_empty, tag_choice |-> T_empty,
      custom_tags |-> T_empty, sensitivity |-> T_empty, status |-> T_empty,
      notes |-> T_empty],
     [description |-> In_memo_padded, category |-> T_misc, tag_choice |-> D_9,
      custom_tags |-> T_a_b_padded, sensitivity |-> D_3, status |-> D_2,
      notes |-> T_note]}

\* The answers typed at "Save to database? (Y/n)".
ConfirmAnswers ==
    {T_empty, T_y, T_yes, A_YES_padded, A_blank, T_n, A_yess}

\* The confirmations: each answer with the storage engine working, and one
\* with the storage engine failing on the insert.
ConfirmInputs ==
    {<<a, "ok">> : a \in ConfirmAnswers} \cup {<<T_empty, "error">>}

\* The values datetime.now().isoformat() gives.
Times == {T_t2}

\* ------------------------------------------------------- the workflow

\* The presets of interactive_tag_selection.
TagPresets ==
    [k \in {D_1, D_2, D_3, D_4, D_5, D_6} |->
        CASE k = D_1 -> <<Tag_Document, Tag_Business>>
          [] k = D_2 -> <<Tag_Research, Tag_Analysis>>
          [] k = D_3 -> <<Tag_Legal, Tag_Official>>
          [] k = D_4 -> <<Tag_Code, Tag_Technical>>
          [] k = D_5 -> <<Tag_Creative, Tag_Ideas>>
          [] k = D_6 -> <<Tag_Notes, Tag_Personal>>]

\* interactive_tag_selection(suggested_tags) for the choice and, after "9",
\* the custom tags typed.
InteractiveTagSelection(suggested_tags, typed_choice, typed_custom) ==
    LET choice == Strip(typed_choice)
    IN  IF choice = T_empty /\ Len(suggested_tags) > 0 THEN Join(suggested_tags)
        ELSE IF choice \in DOMAIN TagPresets THEN Join(TagPresets[choice])
        ELSE IF choice = D_9 THEN Strip(typed_custom)
        ELSE T_Uncategorized

\* `typed.strip() or default`
OrDefault(typed, default) ==
    IF Truthy(StrVal(Strip(typed))) THEN Strip(typed) ELSE default

\* smart_category_selection(detected_category)
SmartCategorySelection(detected_category, typed) == OrDefault(typed, detected_category)

\* {'1': 'public', '3': 'confidential'}.get(sens_choice, 'internal')
SensitivityOf(typed) ==
    CASE Strip(typed) = D_1 -> T_public
      [] Strip(typed) = D_3 -> T_confidential
      [] OTHER -> T_internal

\* {'2': 'in_progress', '3': 'review', '4': 'completed', '5': 'archived'}
\*     .get(status_choice, 'new')
StatusOf(typed) ==
    CASE Strip(typed) = D_2 -> T_in_progress
      [] Strip(typed) = D_3 -> T_review
      [] Strip(typed) = D_4 -> T_completed
      [] Strip(typed) = D_5 -> T_archived
      [] OTHER -> T_new

\* A test of the answer as typed, neither stripped nor lowercased.
AffirmativeAsTyped(answer) == answer \in {T_empty, T_y, T_yes}

\* The test of the answer at "Save to database? (Y/n)".
Affirmative(answer) == Lower(Strip(answer)) \in {T_empty, T_y, T_yes}

\* The tuple process_new_file hands to add_file_metadata.
FileData(m, now, file_path) ==
    <<m.description, m.tags, m.status, m.content_type, m.sensitivity,
      m.custom_fields, now, PathName(file_path), file_path>>

P_study_plan == <<"/","v","/","s","t","u","d","y","_","p","l","a","n",".","m","d">>
P_contract_analysis == <<"/","v","/","c","o","n","t","r","a","c","t","_","a","n","a","l","y","s","i","s",".","d","o","c","x">>
P_LEGAL == <<"/","v","/","L","E","G","A","L",".","P","D","F">>
P_business_agreement == <<"/","v","/","b","u","s","i","n","e","s","s","_","a","g","r","e","e","m","e","n","t",".","d","o","c">>
P_photo == <<"/","v","/","p","h","o","t","o",".","j","p","g">>
P_proposal == <<"/","v","/","p","r","o","p","o","s","a","l",".","j","p","g">>
P_report == <<"/","v","/","r","e","p","o","r","t",".","p","d","f">>
P_letter == <<"/","v","/","l","e","t","t","e","r",".","d","o","c","x">>
P_airplane == <<"/","v","/","a","i","r","p","l","a","n","e",".","t","x","t">>
P_Research == <<"/","v","/","R","e","s","e","a","r","c","h">>
P_legal_dir == <<"/","l","e","g","a","l","/","r","e","a","d","m","e",".","t","x","t">>

\* The paths analyze_file_content is applied to on its own.
AnalysisPaths ==
    {P_notes, P_legal, P_study_plan, P_contract_analysis, P_LEGAL,
     P_business_agreement, P_photo, P_proposal, P_report, P_letter, P_airplane,
     P_Research, P_legal_dir}

\* ---------------------------------------------------------------- state

VARIABLES
    files,  \* the rows of table files
    seq,    \* sqlite_sequence of table files: the largest rowid handed out
    pc,     \* where the program waits: "menu", or a prompt of process_new_file
    wf,     \* the locals of the process_new_file run under way
    ret,    \* the last call: its arguments, what it returned, what it printed
    updates \* the number of update_file_metadata calls made so far

vars == <<files, seq, pc, wf, ret, updates>>

\* No process_new_file run is under way.
NoRun == [file_path |-> T_empty]

\* After VaultDatabase.__init__ on a fresh directory: the table exists and is
\* empty, and main_menu waits for a choice.
Init ==
    /\ files = {}
    /\ seq = 0
    /\ pc = "menu"
    /\ wf = NoRun
    /\ ret = [op |-> "init"]
    /\ updates = 0

\* VaultDatabase.ensure_database_exists(): CREATE TABLE IF NOT EXISTS leaves an
\* existing table as it is.
EnsureDatabaseExists ==
    /\ pc = "menu"
    /\ ret' = [op |-> "ensure_database_exists"]
    /\ UNCHANGED <<files, seq, pc, wf, updates>>

\* A call of VaultDatabase.add_file_metadata(file_data).
AddFile ==
    /\ pc = "menu"
    /\ \E file_data \in AddInputs, engine \in Engines :
          LET r == AddFileMetadata(files, seq, file_data, engine)
          IN  /\ files' = r.rows
              /\ seq' = r.seq
              /\ ret' = [op |-> "add_file_metadata", file_data |-> file_data,
                         engine |-> engine, result |-> r.result, exc |-> r.exc]
    /\ UNCHANGED <<pc, wf, updates>>

\* A call of VaultDatabase.get_file_metadata(filename, path).
GetFile ==
    /\ pc = "menu"
    /\ \E a \in GetArgs :
          LET filename == a[1]
              path == a[2]
              engine == a[3]
          IN  ret' = [op |-> "get_file_metadata", filename |-> filename,
                      path |-> path, engine |-> engine,
                      rows |-> GetFileMetadata(files, filename, path, engine)]
    /\ UNCHANGED <<files, seq, pc, wf, updates>>

\* A call of VaultDatabase.update_file_metadata(file_id, field, value).
UpdateFile ==
    /\ pc = "menu"
    /\ updates < MaxUpdates
    /\ \E a \in UpdateArgs :
          LET file_id == a[1]
              field == a[2]
              value == a[3]
              engine == a[4]
              r == UpdateFileMetadata(files, file_id, field, value, engine)
          IN  /\ files' = r.rows
              /\ ret' = [op |-> "update_file_metadata", file_id |-> file_id,
                         field |-> field, value |-> value, engine |-> engine,
                         result |-> r.result, exc |-> r.exc]
    /\ updates' = updates + 1
    /\ UNCHANGED <<seq, pc, wf>>

\* A run that does not look whether the file is there.
ExistsUnchecked(file_path) == TRUE

\* Path.exists()
Exists(file_path) == file_path \in ExistingFiles

\* process_new_file(file_path_str) up to its first prompt: resolve the path,
\* return if nothing is there, otherwise analyse the file and show the result.
ProcessNewFile ==
    /\ pc = "menu"
    /\ \E typed \in PathInputs :
          LET file_path == Resolve(typed)
          IN  IF ~Exists(file_path)
              THEN /\ ret' = [op |-> "process_new_file", file_path |-> file_path,
                              outcome |-> "File not found", calls |-> <<>>]
                   /\ UNCHANGED <<pc, wf>>
              ELSE \E x \in Extractions :
                   /\ wf' = [file_path |-> file_path,
                             analysis |-> AnalyzeFileContent(file_path, x)]
                   /\ pc' = "prompts"
                   /\ ret' = [op |-> "process_new_file", file_path |-> file_path,
                              outcome |-> "analysed", calls |-> <<>>]
    /\ UNCHANGED <<files, seq, updates>>

\* The metadata process_new_file collects from the answers a.
Collected(file_path, analysis, a) ==
    [description |->
        OrDefault(a.description,
                  IF Truthy(StrVal(analysis.detected_title))
                  THEN analysis.detected_title ELSE PathName(file_path)),
     content_type |-> SmartCategorySelection(analysis.smart_category, a.category),
     tags |-> InteractiveTagSelection(analysis.suggested_tags, a.tag_choice,
                                      a.custom_tags),
     sensitivity |-> SensitivityOf(a.sensitivity),
     status |-> StatusOf(a.status),
     custom_fields |-> Strip(a.notes)]

\* process_new_file from the description prompt to the custom notes prompt.
CollectMetadata ==
    /\ pc = "prompts"
    /\ \E a \in PromptAnswers :
          wf' = [file_path |-> wf.file_path,
                 metadata |-> Collected(wf.file_path, wf.analysis, a)]
    /\ pc' = "confirm"
    /\ ret' = [op |-> "process_new_file", file_path |-> wf.file_path,
               outcome |-> "collected", calls |-> <<>>]
    /\ UNCHANGED <<files, seq, updates>>

\* process_new_file from "Save to database? (Y/n)" to its end.
ConfirmAndSave ==
    /\ pc = "confirm"
    /\ \E c \in ConfirmInputs :
          LET answer == c[1]
              engine == c[2]
          IN
          IF Affirmative(answer)
          THEN \E now \in Times :
               LET file_data == FileData(wf.metadata, now, wf.file_path)
                   r == AddFileMetadata(files, seq, file_data, engine)
               IN  /\ files' = r.rows
                   /\ seq' = r.seq
                   /\ ret' = [op |-> "process_new_file", file_path |-> wf.file_path,
                              outcome |-> IF Truthy(r.result)
                                          THEN "File metadata saved successfully!"
                                          ELSE "Failed to save metadata.",
                              calls |-> <<"add_file_metadata">>,
                              answer |-> answer, engine |-> engine,
                              result |-> r.result, exc |-> r.exc]
          ELSE /\ ret' = [op |-> "process_new_file", file_path |-> wf.file_path,
                          outcome |-> "Operation cancelled.", calls |-> <<>>,
                          answer |-> answer]
               /\ UNCHANGED <<files, seq>>
    /\ pc' = "menu"
    /\ wf' = NoRun
    /\ UNCHANGED updates

Next ==
    \/ EnsureDatabaseExists
    \/ AddFile
    \/ GetFile
    \/ UpdateFile
    \/ ProcessNewFile
    \/ CollectMetadata
    \/ ConfirmAndSave

Spec == Init /\ [][Next]_vars

\* ------------------------------------------- the analyzer on its own

\* analyze_file_content is about to be applied to some path, with some outcome
\* of type-specific extraction.
InitAnalyze ==
    /\ files = {}
    /\ seq = 0
    /\ pc = "analyze"
    /\ wf \in [file_path : AnalysisPaths, x : Extractions]
    /\ ret = [op |-> "init"]
    /\ updates = 0

\* One call of analyze_file_content.
Analyze ==
    /\ pc = "analyze"
    /\ pc' = "analysed"
    /\ ret' = [op |-> "analyze_file_content", file_path |-> wf.file_path,
               x |-> wf.x, analysis |-> AnalyzeFileContent(wf.file_path, wf.x)]
    /\ UNCHANGED <<files, seq, wf, updates>>

NextAnalyze == Analyze

SpecAnalyze == InitAnalyze /\ [][NextAnalyze]_vars

\* ================================================================ claims

\* The step is a call of add_file_metadata, made directly or by
\* process_new_file, for a record with path p.
InsertOf(p) ==
    \/ /\ ret'.op = "add_file_metadata"
       /\ ret'.file_data[9] = p
    \/ /\ pc = "confirm"
       /\ ret'.op = "process_new_file"
       /\ ret'.calls = <<"add_file_metadata">>
       /\ wf.file_path = p

\* The paths a record can be inserted with in the model.
InsertPaths == {d[9] : d \in AddInputs} \cup ExistingFiles

\* No two rows of the table share a path.
AtMostOnePerPath == \A r \in files : \A q \in files : r["path"] = q["path"] => r = q

\* C1: an insert the storage engine carries out, for a path no record has,
\* returns a positive identifier and adds exactly one record, which has that
\* path; for a path some record has it returns None and leaves the table as
\* it was; and no state holds two records with one path.
C1_InsertUniquePath ==
    /\ []AtMostOnePerPath
    /\ [][\A p \in InsertPaths :
            (InsertOf(p) /\ ret'.engine = "ok") =>
                IF \E r \in files : r["path"] = p
                THEN /\ ret'.result = None
                     /\ files' = files
                ELSE /\ ret'.result.py = "int"
                     /\ ret'.result.v > 0
                     /\ files \subseteq files'
                     /\ Cardinality(files') = Cardinality(files) + 1
                     /\ \E r \in files' \ files :
                           r["path"] = p /\ r["id"] = ret'.result.v]_vars

\* C1 witness: a direct insert was refused for a path whose record differs
\* from the one offered.
C1_Witness ==
    /\ ret.op = "add_file_metadata"
    /\ ret.exc = "IntegrityError"
    /\ ret.result = None
    /\ \E r \in files :
          r["path"] = ret.file_data[9] /\ r["description"] # ret.file_data[1]

\* C2: update_file_metadata with an identifier no record has returns False and
\* leaves the set of records as it was.
C2_UnknownIdFails ==
    [][(ret'.op = "update_file_metadata"
            /\ ~ \E r \in files : r["id"] = ret'.file_id) =>
        (ret'.result = FALSE /\ files' = files)]_vars

\* The identifier and date_created of each row.
Birth(rows) == {<<r["id"], r["date_created"]>> : r \in rows}

\* C3: no step changes the identifier or the date_created of an existing
\* record: every pair of the two a record has, some record still has after
\* the step.
C3_IdAndDateFixed == [][Birth(files) \subseteq Birth(files')]_vars

\* The field names of a FileRecord.
FileRecordFields == TableColumns

\* C4: update_file_metadata with a field name that is no FileRecord field
\* returns False and changes no record.
C4_FieldNameValidated ==
    [][(ret'.op = "update_file_metadata" /\ ret'.field \notin FileRecordFields) =>
        (ret'.result = FALSE /\ files' = files)]_vars

\* C5: update_file_metadata(id, "status", v) that the storage engine carries
\* out, for the id of an existing record, returns True; afterwards that record
\* has status v and is otherwise as before, and the other records are as
\* before.
C5_StatusUpdate ==
    [][\A r \in files :
        (/\ ret'.op = "update_file_metadata"
         /\ ret'.file_id = r["id"]
         /\ ret'.field = "status"
         /\ ret'.value.py = "str"
         /\ ret'.engine = "ok") =>
            /\ ret'.result = TRUE
            /\ files' = (files \ {r}) \cup {[r EXCEPT !["status"] = ret'.value.s]}
            /\ Cardinality(files') = Cardinality(files)]_vars

\* C5 witness: a status update of one of two records returned True and that
\* record has the new status, the other record not.
C5_Witness ==
    /\ ret.op = "update_file_metadata"
    /\ ret.field = "status"
    /\ ret.result = TRUE
    /\ Cardinality(files) = 2
    /\ \E r \in files : r["id"] = ret.file_id /\ r["status"] = ret.value.s
    /\ \E q \in files : q["id"] # ret.file_id /\ q["status"] # ret.value.s

\* C6: at the confirmation prompt add_file_metadata is called exactly when the
\* answer, stripped and lowercased, is "", "y" or "yes", and then once; any
\* other answer ends the run as cancelled with the table as it was; and the
\* earlier steps of a run call nothing.
C6_InsertIffAffirmative ==
    [][/\ pc = "confirm" =>
            LET affirmative == Lower(Strip(ret'.answer)) \in {T_empty, T_y, T_yes}
            IN  /\ pc' = "menu"
                /\ (ret'.calls = <<"add_file_metadata">>) <=> affirmative
                /\ Len(ret'.calls) <= 1
                /\ Cardinality(files') <= Cardinality(files) + 1
                /\ ret'.answer \in {A_YES_padded, A_blank} => affirmative
                /\ ret'.answer \in {T_n, A_yess} => ~affirmative
                /\ ~affirmative =>
                      /\ ret'.outcome = "Operation cancelled."
                      /\ files' = files
                      /\ seq' = seq
       /\ (pc = "prompts" \/ (pc = "menu" /\ ret'.op = "process_new_file")) =>
            (ret'.calls = <<>> /\ files' = files /\ seq' = seq)]_vars

\* C6 witness: a run over a table that holds a record was cancelled by an
\* answer that only resembles "yes".
C6_Witness ==
    /\ ret.op = "process_new_file"
    /\ ret.outcome = "Operation cancelled."
    /\ ret.answer = A_yess
    /\ files # {}

\* C7: process_new_file for a path that does not exist reports it and returns:
\* no analysis, no prompt, no store call, and get_file_metadata() gives the
\* same rows before and after.
C7_MissingFileAborts ==
    [][(pc = "menu" /\ ret'.op = "process_new_file"
            /\ ret'.file_path \notin ExistingFiles) =>
        /\ ret'.outcome = "File not found"
        /\ ret'.calls = <<>>
        /\ pc' = "menu"
        /\ wf' = NoRun
        /\ GetFileMetadata(files', None, None, "ok")
              = GetFileMetadata(files, None, None, "ok")]_vars

\* C7 witness: a run for a missing path ended over a table that holds records.
C7_Witness ==
    /\ ret.op = "process_new_file"
    /\ ret.outcome = "File not found"
    /\ ret.file_path \notin ExistingFiles
    /\ Cardinality(files) = 2

\* C8: after an insert that returned an identifier, get_file_metadata(path=P)
\* gives exactly the record inserted, under that identifier, for the path P of
\* the insert and for the path of every record inserted before.
C8_FindByPathAfterInsert ==
    [][\A p \in InsertPaths :
        (InsertOf(p) /\ ret'.result.py = "int") =>
            /\ \E r \in files' :
                  /\ r["id"] = ret'.result.v
                  /\ r["path"] = p
                  /\ ret'.op = "add_file_metadata" =>
                        r = InsertedRow(ret'.result.v, ret'.file_data)
                  /\ GetFileMetadata(files', None, StrVal(p), "ok") = <<r>>
            /\ \A q \in files' :
                  GetFileMetadata(files', None, StrVal(q["path"]), "ok") = <<q>>]_vars

\* C9: what add_file_metadata returns for a path that is taken differs from
\* what it returns when the storage engine fails otherwise.
C9_DuplicateDistinguished ==
    (ret.op = "add_file_metadata" /\ ret.exc = "IntegrityError") =>
        \A d \in AddInputs :
            AddFileMetadata(files, seq, d, "error").result # ret.result

\* What type-specific extraction sets for an extension: category and tags.
TypeSpecificDefaults(extension) ==
    CASE extension = X_pdf ->
            [category |-> T_document_pdf, tags |-> <<Tag_PDF, Tag_Document>>]
      [] extension \in {X_docx, X_doc} ->
            [category |-> T_document_docx, tags |-> <<Tag_Document, Tag_Business>>]
      [] extension \in TextExtensions ->
            [category |-> T_text_file, tags |-> <<>>]
      [] OTHER -> [category |-> T_unknown, tags |-> <<>>]

====
